---------------------------- MODULE Spec2Model ----------------------------
(***************************************************************************)
(* Model of aoa_udf.c: the Fluent UDF of the angle-of-attack sweep.        *)
(*                                                                         *)
(* The UDF has two statics (aoa_deg, header_written), reads aoa.txt,       *)
(* writes the inlet boundary profile and appends to aoa_results.txt.       *)
(*                                                                         *)
(* Numbers.  A C `real`/`double` is modelled in decimal fixed point: the   *)
(* integer n stands for n / Scale.  Every product and quotient is rounded  *)
(* to the nearest representable value, as a floating-point operation is,   *)
(* so that identities of real arithmetic hold in the model only up to      *)
(* rounding, as they do in the compiled UDF.  IEEE infinities and NaN are  *)
(* three values outside the finite range.                                  *)
(***************************************************************************)
EXTENDS Integers, Sequences, FiniteSets

(***************************************************************************)
(* Fixed-point arithmetic                                                  *)
(***************************************************************************)
Scale == 1000

PosInf == 2000000001
NegInf == 2000000002
NaN == 2000000003

IsFinite(x) == x \notin {PosInf, NegInf, NaN}

Abs(x) == IF x < 0 THEN -x ELSE x

Sgn(x) == IF x < 0 THEN -1 ELSE IF x > 0 THEN 1 ELSE 0

\* n / d rounded to the nearest integer (halves upwards), d > 0
RoundDiv(n, d) == (2 * n + d) \div (2 * d)

\* a * b / c rounded to nearest for a, b >= 0 and c > 0, without forming
\* a * b (a = q * c + r, 0 <= r < c, so a * b / c = q * b + r * b / c)
MulDiv(a, b, c) == (a \div c) * b + RoundDiv((a % c) * b, c)

\* x * y on reals (sign-symmetric, as an IEEE product is)
Mul(x, y) == Sgn(x) * Sgn(y) * MulDiv(Abs(x), Abs(y), Scale)

\* x / y on reals; IEEE-754 gives an infinity or NaN for a zero divisor
Div(x, y) ==
    IF y = 0 THEN (IF x = 0 THEN NaN ELSE IF x > 0 THEN PosInf ELSE NegInf)
    ELSE Sgn(x) * Sgn(y) * MulDiv(Abs(x), Scale, Abs(y))

\* number of decimal digits of n > 0
RECURSIVE Digits(_)
Digits(n) == IF n < 10 THEN 1 ELSE 1 + Digits(n \div 10)

RECURSIVE Pow10(_)
Pow10(k) == IF k = 0 THEN 1 ELSE 10 * Pow10(k - 1)

\* the precision of printf's %g: six significant digits
GPrecision == 6

\* the number a "%g" rendering of x denotes: x rounded to six significant
\* decimal digits (inf and nan print as such)
RoundSig(x) ==
    IF ~IsFinite(x) \/ Abs(x) < Pow10(GPrecision) THEN x
    ELSE LET p == Pow10(Digits(Abs(x)) - GPrecision)
         IN  Sgn(x) * RoundDiv(Abs(x), p) * p

FmtG(x) == RoundSig(x)

(***************************************************************************)
(* The user-edited macros (aoa_udf.c lines 21-25) and PI                   *)
(***************************************************************************)
SURFACE_ZONE_ID == 5

\* 3.14159265358979323846 at the model's resolution
PI == 3142

\* the macros as shipped: RHO 1.225, UINF 16.0, AREF 0.4, LREF 0.435
DefaultCfg == [RHO |-> 1225, UINF |-> 16000, AREF |-> 400, LREF |-> 435]

\* the macros are edited before compiling: each one as shipped, or zero
Configs ==
    [RHO : {0, DefaultCfg.RHO}, UINF : {0, DefaultCfg.UINF},
     AREF : {0, DefaultCfg.AREF}, LREF : {0, DefaultCfg.LREF}]

(***************************************************************************)
(* libm's cos and sin at the radian values the model's angles convert to,  *)
(* rounded to the model's resolution                                       *)
(***************************************************************************)
cos(r) ==
    CASE r = 0 -> 1000
      [] r = -87 -> 996
      [] r = 44 -> 999
      [] r = 524 -> 866
      [] r = 1571 -> 0
      [] r = 3142 -> -1000
      [] r = 21550 -> -904

sin(r) ==
    CASE r = 0 -> 0
      [] r = -87 -> -87
      [] r = 44 -> 44
      [] r = 524 -> 500
      [] r = 1571 -> 1000
      [] r = 3142 -> 0
      [] r = 21550 -> 427

(***************************************************************************)
(* Steps 1 and 5-7 of compute_forces_and_write, and the profile values     *)
(***************************************************************************)
\* a_rad = aoa_deg * PI / 180.0
Rad(aoa) == Div(Mul(aoa, PI), 180 * Scale)

\* Fd = Fx * cos(a_rad) + Fy * sin(a_rad)
Drag(force, a_rad) == Mul(force[1], cos(a_rad)) + Mul(force[2], sin(a_rad))

\* a faulty variant of Lift: the sign of the Fx term lost
LiftWrongSign(force, a_rad) ==
    Mul(force[1], sin(a_rad)) + Mul(force[2], cos(a_rad))

\* Fl = -Fx * sin(a_rad) + Fy * cos(a_rad)
Lift(force, a_rad) == Mul(-force[1], sin(a_rad)) + Mul(force[2], cos(a_rad))

\* qinf = 0.5 * RHO * UINF * UINF
Qinf(c) == Mul(Mul(Mul(Scale \div 2, c.RHO), c.UINF), c.UINF)

\* the denominators of step 7
QA(c) == Mul(Qinf(c), c.AREF)

QAL(c) == Mul(QA(c), c.LREF)

\* a faulty variant of CoeffGuard: the coefficients divided without the test
CoeffUnguarded(c) == TRUE

\* the guard of step 7: qinf * AREF != 0.0
CoeffGuard(c) == QA(c) # 0

\* the divisors of the divisions step 7 performs, in program order
Divisors(c) ==
    IF CoeffGuard(c) THEN <<QA(c), QA(c), QAL(c), QAL(c), QAL(c)>> ELSE <<>>

\* Cd, Cl, Cmx, Cmy, Cmz
Coeffs(Fd, Fl, moment, c) ==
    IF CoeffGuard(c)
    THEN [Cd |-> Div(Fd, QA(c)), Cl |-> Div(Fl, QA(c)),
          Cmx |-> Div(moment[1], QAL(c)),
          Cmy |-> Div(moment[2], QAL(c)),
          Cmz |-> Div(moment[3], QAL(c))]
    ELSE [Cd |-> 0, Cl |-> 0, Cmx |-> 0, Cmy |-> 0, Cmz |-> 0]

\* a faulty variant of Reduce: aoa_deg and Fx exchanged in the argument list
ReduceArgsSwapped(aoa, force, moment, c) ==
    LET a_rad == Rad(aoa)
        Fd == Drag(force, a_rad)
        Fl == Lift(force, a_rad)
        k == Coeffs(Fd, Fl, moment, c)
    IN  <<force[1], aoa, force[2], force[3], Fd, Fl, k.Cd, k.Cl,
          moment[1], moment[2], moment[3], k.Cmx, k.Cmy, k.Cmz>>

\* the fourteen values of one result, in the order they are printed
Reduce(aoa, force, moment, c) ==
    LET a_rad == Rad(aoa)
        Fd == Drag(force, a_rad)
        Fl == Lift(force, a_rad)
        k == Coeffs(Fd, Fl, moment, c)
    IN  <<aoa, force[1], force[2], force[3], Fd, Fl, k.Cd, k.Cl,
          moment[1], moment[2], moment[3], k.Cmx, k.Cmy, k.Cmz>>

\* ux = UINF * cos(a_rad)
Ux(aoa, c) == Mul(c.UINF, cos(Rad(aoa)))

\* uy = UINF * sin(a_rad)
Uy(aoa, c) == Mul(c.UINF, sin(Rad(aoa)))

(***************************************************************************)
(* Files.  aoa.txt is a sequence of whitespace-separated tokens; a token   *)
(* is a decimal number (num, with its value val), a number followed by    *)
(* other characters (num and junk), or no number at all (junk only).       *)
(* aoa_results.txt is a sequence of lines.                                 *)
(***************************************************************************)
Num(v) == [num |-> TRUE, val |-> v, junk |-> FALSE]

NumJunk(v) == [num |-> TRUE, val |-> v, junk |-> TRUE]

Junk == [num |-> FALSE, val |-> 0, junk |-> TRUE]

NoFile == [exists |-> FALSE, tokens |-> <<>>]

File(toks) == [exists |-> TRUE, tokens |-> toks]

HeaderLine == [kind |-> "header", f |-> <<>>]

RowLine(vals) == [kind |-> "row", f |-> vals]

\* the fourteen "%g" conversions of the data row and of the final Message
FmtRow(vals) == [i \in 1..Len(vals) |-> FmtG(vals[i])]

\* fscanf(fp, "%lf", &tmp): the number of conversions (EOF is -1) and tmp
fscanf_lf(file) ==
    IF Len(file.tokens) = 0 THEN [n |-> -1, tmp |-> 0]
    ELSE IF file.tokens[1].num THEN [n |-> 1, tmp |-> file.tokens[1].val]
    ELSE [n |-> 0, tmp |-> 0]

\* a faulty variant of read_aoa_from_file: tmp assigned whatever fscanf returned
read_aoa_unchecked(cur, file) ==
    IF file.exists THEN fscanf_lf(file).tmp ELSE cur

\* read_aoa_from_file: the value of aoa_deg after the call, from its value
\* before (cur) and aoa.txt
read_aoa_from_file(cur, file) ==
    IF file.exists
    THEN (IF fscanf_lf(file).n = 1 THEN fscanf_lf(file).tmp ELSE cur)
    ELSE cur

\* a faulty variant of fopen_a: the file opened with mode "w", which truncates it
fopen_w(lines) == <<>>

\* fopen("aoa_results.txt", "a"): the content the stream appends to
fopen_a(lines) == lines

\* a faulty variant of HeaderDue: the header printed without testing the flag
HeaderAlways(hw, lines) == TRUE

\* if (!header_written) { fprintf(header); header_written = 1; }
HeaderDue(hw, lines) == hw = 0

\* what step 8 leaves in aoa_results.txt once the file is open
WriteRow(hw, lines, vals) ==
    (IF HeaderDue(hw, lines) THEN Append(fopen_a(lines), HeaderLine)
     ELSE fopen_a(lines))
        \o <<RowLine(FmtRow(vals))>>

(***************************************************************************)
(* Bounds and the values the environment supplies                          *)
(***************************************************************************)
\* aoa_results.txt is not grown beyond this many lines
MaxLines == 4

\* the same, where the ledger is not what is examined
FewLines == 2

\* faces of the inlet thread
NFaces == 2

\* angles of a sweep
MaxSweep == 2

\* angles (degrees) written to aoa.txt
ProfAngles == {-5000, 30000}

Angles == {-5000, 0, 2500, 30000, 90000, 180000, 1234567}

SysAngles == {30000, 1234567}

\* force and moment vectors Compute_Force_And_Moment returns
Forces == {<<1000, 0, 0>>, <<0, 0, 0>>, <<3000, -2000, 0>>,
           <<3000, -2000, 1000>>, <<-1000, 2000, 500>>}

Moments == {<<0, 0, 0>>, <<500, -250, 125>>}

Loads == [force : Forces, moment : Moments]

SysLoads == {[force |-> <<3000, -2000, 1000>>, moment |-> <<500, -250, 125>>],
             [force |-> <<1000, 0, 0>>, moment |-> <<0, 0, 0>>]}

\* contents of aoa.txt
Stores(angles) ==
    {NoFile, File(<<>>), File(<<Junk>>)}
        \cup {File(<<Num(a)>>) : a \in angles}
        \cup {File(<<Num(a), Junk>>) : a \in angles}
        \cup {File(<<NumJunk(a)>>) : a \in angles}

\* the contents the journal leaves, and no file
SysStores == {NoFile, File(<<Junk>>)} \cup {File(<<Num(a)>>) : a \in SysAngles}

(***************************************************************************)
(* State                                                                   *)
(***************************************************************************)
VARIABLES
    cfg,            \* the macros RHO, UINF, AREF, LREF the UDF was built with
    aoa_txt,        \* the file aoa.txt
    results_txt,    \* the file aoa_results.txt
    flow,           \* the solution: what Compute_Force_And_Moment returns
    aoa_deg,        \* static real aoa_deg
    header_written, \* static int header_written
    F_PROFILE,      \* the inlet thread's profile storage, per component
    console,        \* the last Message
    pc,             \* the journal's position ("free": no journal)
    plan,           \* the angles the journal has still to run
    swept,          \* history: the angles the journal has completed
    last_op,        \* history: the last step taken
    proc_start,     \* history: lines of aoa_results.txt at process start
    calls,          \* history: the results this process appended
    last_good,      \* history: aoa.txt as last converted by a read
    twin_aoa        \* history: aoa_deg had no lookup ever failed

prog == <<aoa_deg, header_written, F_PROFILE, console>>
files == <<aoa_txt, results_txt>>
journal == <<pc, plan, swept>>
hist == <<last_op, proc_start, calls, last_good, twin_aoa>>
vars == <<cfg, flow, prog, files, journal, hist>>

NoMessage == [kind |-> "none", f |-> <<>>]

Faces == 1..NFaces

NeverRead == [seen |-> FALSE, val |-> 0]

NoProfile == [x |-> [f \in Faces |-> 0], y |-> [f \in Faces |-> 0]]

\* the statics as initialised when the UDF library is loaded
InitProcess ==
    /\ aoa_deg = 0
    /\ header_written = 0
    /\ F_PROFILE = NoProfile
    /\ console = NoMessage
    /\ last_op = "load"
    /\ proc_start = Len(results_txt)
    /\ calls = <<>>
    /\ last_good = NeverRead
    /\ twin_aoa = 0

(***************************************************************************)
(* History kept beside a read of aoa.txt                                   *)
(***************************************************************************)
\* aoa.txt is there and its first token starts with a number
Readable(file) ==
    file.exists /\ Len(file.tokens) > 0 /\ file.tokens[1].num

FirstNumber(file) == file.tokens[1].val

ReadHistory ==
    last_good' = IF Readable(aoa_txt)
                 THEN [seen |-> TRUE, val |-> FirstNumber(aoa_txt)]
                 ELSE last_good

(***************************************************************************)
(* DEFINE_PROFILE(inlet_U_profile) and DEFINE_PROFILE(inlet_V_profile)     *)
(***************************************************************************)
\* a faulty variant of FLoop: the loop stops one face short
FLoopShort(old, v) == [f \in Faces |-> IF f = NFaces THEN old[f] ELSE v]

\* begin_f_loop(f, thread) { F_PROFILE(f, thread, index) = v; }
FLoop(old, v) == [f \in Faces |-> v]

inlet_U_profile ==
    /\ aoa_deg' = read_aoa_from_file(aoa_deg, aoa_txt)
    /\ F_PROFILE' = [F_PROFILE EXCEPT !.x = FLoop(@, Ux(aoa_deg', cfg))]
    /\ UNCHANGED <<header_written, console, files, cfg, flow>>
    /\ last_op' = "U"
    /\ ReadHistory
    /\ twin_aoa' = read_aoa_from_file(twin_aoa, aoa_txt)
    /\ UNCHANGED <<proc_start, calls>>

inlet_V_profile ==
    /\ aoa_deg' = read_aoa_from_file(aoa_deg, aoa_txt)
    /\ F_PROFILE' = [F_PROFILE EXCEPT !.y = FLoop(@, Uy(aoa_deg', cfg))]
    /\ UNCHANGED <<header_written, console, files, cfg, flow>>
    /\ last_op' = "V"
    /\ ReadHistory
    /\ twin_aoa' = read_aoa_from_file(twin_aoa, aoa_txt)
    /\ UNCHANGED <<proc_start, calls>>

(***************************************************************************)
(* DEFINE_ON_DEMAND(compute_forces_and_write), by the outcome of           *)
(* Lookup_Thread and of fopen                                              *)
(***************************************************************************)
ErrorMessage == [kind |-> "error", f |-> <<SURFACE_ZONE_ID>>]

ResultMessage(vals) == [kind |-> "result", f |-> FmtRow(vals)]

\* a faulty variant of compute_not_found: the return after the Message is missing
compute_not_found_falls_through ==
    /\ aoa_deg' = read_aoa_from_file(aoa_deg, aoa_txt)
    /\ \E vals \in {Reduce(aoa_deg', flow.force, flow.moment, cfg)} :
           /\ results_txt' = WriteRow(header_written, results_txt, vals)
           /\ calls' = Append(calls, vals)
    /\ console' = ErrorMessage
    /\ header_written' = 1
    /\ UNCHANGED <<F_PROFILE, aoa_txt, cfg, flow>>
    /\ last_op' = "not_found"
    /\ ReadHistory
    /\ UNCHANGED <<proc_start, twin_aoa>>

\* Lookup_Thread returns NULL: Message, return
compute_not_found ==
    /\ aoa_deg' = read_aoa_from_file(aoa_deg, aoa_txt)
    /\ console' = ErrorMessage
    /\ UNCHANGED <<header_written, F_PROFILE, files, cfg, flow>>
    /\ last_op' = "not_found"
    /\ ReadHistory
    /\ UNCHANGED <<proc_start, calls, twin_aoa>>

\* the surface is found and aoa_results.txt opens
compute_append(cap) ==
    /\ Len(results_txt) + 2 <= cap
    /\ aoa_deg' = read_aoa_from_file(aoa_deg, aoa_txt)
    /\ \E vals \in {Reduce(aoa_deg', flow.force, flow.moment, cfg)} :
           /\ results_txt' = WriteRow(header_written, results_txt, vals)
           /\ console' = ResultMessage(vals)
           /\ calls' = Append(calls, vals)
    /\ header_written' = 1
    /\ UNCHANGED <<F_PROFILE, aoa_txt, cfg, flow>>
    /\ last_op' = "append"
    /\ ReadHistory
    /\ twin_aoa' = read_aoa_from_file(twin_aoa, aoa_txt)
    /\ UNCHANGED proc_start

\* the surface is found and fopen returns NULL
compute_open_failed ==
    /\ aoa_deg' = read_aoa_from_file(aoa_deg, aoa_txt)
    /\ \E vals \in {Reduce(aoa_deg', flow.force, flow.moment, cfg)} :
           console' = ResultMessage(vals)
    /\ UNCHANGED <<header_written, F_PROFILE, files, cfg, flow>>
    /\ last_op' = "open_failed"
    /\ ReadHistory
    /\ twin_aoa' = read_aoa_from_file(twin_aoa, aoa_txt)
    /\ UNCHANGED <<proc_start, calls>>

compute_forces_and_write(cap) ==
    \/ compute_not_found
    \/ compute_append(cap)
    \/ compute_open_failed

(***************************************************************************)
(* The environment: the journal or the user rewrites aoa.txt, the solver   *)
(* iterates, Fluent is restarted (the UDF library is loaded anew)          *)
(***************************************************************************)
WriteStore(contents) ==
    /\ aoa_txt' \in contents
    /\ last_op' = "store"
    /\ UNCHANGED <<cfg, flow, prog, results_txt>>
    /\ UNCHANGED <<proc_start, calls, last_good, twin_aoa>>

Solve(loads) ==
    /\ flow' \in loads
    /\ last_op' = "solve"
    /\ UNCHANGED <<cfg, prog, files>>
    /\ UNCHANGED <<proc_start, calls, last_good, twin_aoa>>

Restart ==
    /\ last_op # "load"
    /\ aoa_deg' = 0
    /\ header_written' = 0
    /\ F_PROFILE' = NoProfile
    /\ console' = NoMessage
    /\ last_op' = "load"
    /\ proc_start' = Len(results_txt)
    /\ calls' = <<>>
    /\ last_good' = NeverRead
    /\ twin_aoa' = 0
    /\ UNCHANGED <<cfg, flow, files>>

(***************************************************************************)
(* Spec: one working directory, any interleaving of the three UDF entry    *)
(* points with the environment                                             *)
(***************************************************************************)
Init ==
    /\ cfg = DefaultCfg
    /\ aoa_txt \in SysStores
    /\ results_txt = <<>>
    /\ flow \in SysLoads
    /\ pc = "free" /\ plan = <<>> /\ swept = <<>>
    /\ InitProcess

Next ==
    \/ compute_forces_and_write(MaxLines) /\ UNCHANGED journal
    \/ WriteStore(SysStores) /\ UNCHANGED journal
    \/ Restart /\ UNCHANGED journal

Spec == Init /\ [][Next]_vars

(***************************************************************************)
(* ProfileSpec: the boundary condition is re-applied while aoa.txt changes *)
(* to any content                                                          *)
(***************************************************************************)
InitProfile ==
    /\ cfg = DefaultCfg
    /\ aoa_txt \in Stores(ProfAngles)
    /\ results_txt = <<>>
    /\ flow \in {[force |-> <<1000, 0, 0>>, moment |-> <<0, 0, 0>>]}
    /\ pc = "free" /\ plan = <<>> /\ swept = <<>>
    /\ InitProcess

NextProfile ==
    \/ inlet_U_profile /\ UNCHANGED journal
    \/ inlet_V_profile /\ UNCHANGED journal
    \/ compute_forces_and_write(FewLines) /\ UNCHANGED journal
    \/ WriteStore(Stores(ProfAngles)) /\ UNCHANGED journal
    \/ Restart /\ UNCHANGED journal

ProfileSpec == InitProfile /\ [][NextProfile]_vars

(***************************************************************************)
(* ReduceSpec: one reduction, for every angle, load and set of macros      *)
(***************************************************************************)
InitReduce ==
    /\ cfg \in Configs
    /\ aoa_txt \in {File(<<Num(a)>>) : a \in Angles}
    /\ results_txt = <<>>
    /\ flow \in Loads
    /\ pc = "free" /\ plan = <<>> /\ swept = <<>>
    /\ InitProcess

NextReduce ==
    \/ compute_append(FewLines) /\ UNCHANGED journal
    \/ compute_open_failed /\ UNCHANGED journal

ReduceSpec == InitReduce /\ [][NextReduce]_vars

(***************************************************************************)
(* SweepSpec: the journal of the README.  For each angle it overwrites     *)
(* aoa.txt, iterates the solver (which applies both profiles) and calls    *)
(* compute_forces_and_write; the surface exists and the ledger opens.      *)
(***************************************************************************)
RECURSIVE SeqsUpTo(_, _)
SeqsUpTo(S, n) ==
    IF n = 0 THEN {<<>>}
    ELSE LET shorter == SeqsUpTo(S, n - 1)
         IN  shorter \cup {Append(q, x) : q \in shorter, x \in S}

InitSweep ==
    /\ cfg = DefaultCfg
    /\ aoa_txt = NoFile
    /\ results_txt = <<>>
    /\ flow \in SysLoads
    /\ pc = "write"
    /\ plan \in SeqsUpTo(Angles, MaxSweep) \ {<<>>}
    /\ swept = <<>>
    /\ InitProcess

JournalWrite ==
    /\ pc = "write" /\ plan # <<>>
    /\ WriteStore({File(<<Num(Head(plan))>>)})
    /\ pc' = "bc_x"
    /\ UNCHANGED <<plan, swept>>

JournalProfileX ==
    /\ pc = "bc_x"
    /\ inlet_U_profile
    /\ pc' = "bc_y"
    /\ UNCHANGED <<plan, swept>>

JournalProfileY ==
    /\ pc = "bc_y"
    /\ inlet_V_profile
    /\ pc' = "solve"
    /\ UNCHANGED <<plan, swept>>

JournalSolve ==
    /\ pc = "solve"
    /\ Solve(SysLoads)
    /\ pc' = "report"
    /\ UNCHANGED <<plan, swept>>

JournalReport ==
    /\ pc = "report"
    /\ compute_append(MaxSweep + 2)
    /\ pc' = "write"
    /\ plan' = Tail(plan)
    /\ swept' = Append(swept, Head(plan))

NextSweep ==
    \/ JournalWrite
    \/ JournalProfileX
    \/ JournalProfileY
    \/ JournalSolve
    \/ JournalReport

SweepSpec == InitSweep /\ [][NextSweep]_vars

(***************************************************************************)
(* Properties                                                              *)
(***************************************************************************)
IsPrefix(s, t) == Len(s) <= Len(t) /\ SubSeq(t, 1, Len(s)) = s

Headers(lines) == {i \in DOMAIN lines : lines[i].kind = "header"}

IsRow(line) == line.kind = "row"

\* the lines this process has written
Mine == SubSeq(results_txt, proc_start + 1, Len(results_txt))

\* C1: within one process lifetime, whatever invocations fail in between,
\* the header is written at most once, immediately before the first data
\* row the process writes; N successful invocations leave one header and
\* then their N rows, in call order (against an empty file these are the
\* whole file).
C1_HeaderOncePerProcess ==
    /\ Cardinality(Headers(Mine)) <= 1
    /\ Len(Mine) = (IF calls = <<>> THEN 0 ELSE Len(calls) + 1)
    /\ Mine # <<>> => Mine[1] = HeaderLine
    /\ \A i \in 1..Len(calls) : Mine[i + 1] = RowLine(FmtRow(calls[i]))
    /\ header_written = (IF calls = <<>> THEN 0 ELSE 1)

\* two successful invocations with different angles on an empty file, and
\* a failed one after them
C1_Witness ==
    /\ proc_start = 0
    /\ Len(calls) = 2
    /\ calls[1][1] # calls[2][1]
    /\ last_op = "open_failed"
    /\ Len(results_txt) = 3

\* C2: the file holds at most one header line, and a process that started
\* with a non-empty aoa_results.txt has added none.
C2_OneHeaderPerFile ==
    /\ Cardinality(Headers(results_txt)) <= 1
    /\ proc_start > 0 => Headers(Mine) = {}

\* C3 (as claimed): after a failed lookup a later successful invocation
\* behaves as if the failed one had not happened: the row it appends is the
\* row it would append had no failed invocation run.
C3_AsIfNotHappened ==
    last_op = "append" =>
        results_txt[Len(results_txt)] =
            RowLine(FmtRow(Reduce(twin_aoa, flow.force, flow.moment, cfg)))

\* C3 (amended): an invocation whose lookup fails prints the error message
\* and leaves aoa_results.txt and header_written as they were.
C3_NotFoundAborts ==
    [][last_op' = "not_found" =>
          /\ results_txt' = results_txt
          /\ header_written' = header_written
          /\ console' = ErrorMessage]_vars

\* a failed lookup in a process that has written its header, which has
\* refreshed the cached angle on its way
C3_Witness ==
    /\ last_op = "not_found"
    /\ header_written = 1
    /\ results_txt # <<>>
    /\ aoa_deg # twin_aoa

\* C4: an invocation that computed a result and could not open the ledger
\* ends in an outcome the driver can tell from a successful append: its
\* console output is not that of an append of the same result.
C4_OpenFailureSurfaced ==
    last_op = "open_failed" =>
        console # ResultMessage(Reduce(aoa_deg, flow.force, flow.moment, cfg))

\* C7: the ledger is append-only: every step leaves the previous content
\* of aoa_results.txt as a prefix of the new content.
C7_AppendOnly == [][IsPrefix(results_txt, results_txt')]_vars

\* a restarted process has appended to the content it found
C7_Witness ==
    /\ proc_start > 0
    /\ Len(results_txt) > proc_start
    /\ last_op = "append"

\* cos and sin of an angle given in degrees, to three decimals
CosDeg(d) ==
    CASE d = 0 -> 1000
      [] d = -5000 -> 996
      [] d = 2500 -> 999
      [] d = 30000 -> 866
      [] d = 90000 -> 0
      [] d = 180000 -> -1000
      [] d = 1234567 -> -903

SinDeg(d) ==
    CASE d = 0 -> 0
      [] d = -5000 -> -87
      [] d = 2500 -> 44
      [] d = 30000 -> 500
      [] d = 90000 -> 1000
      [] d = 180000 -> 0
      [] d = 1234567 -> 429

\* C5: the cached AoA is the number converted by the most recent read that
\* found aoa.txt readable with a number at the start of its first token, and
\* 0.0 before any such read; a read that finds the file missing, empty or
\* not numeric leaves it as it was, and a profile call prints nothing.
C5_CachedAoA ==
    /\ [](aoa_deg = IF last_good.seen THEN last_good.val ELSE 0)
    /\ [][last_op' \in {"U", "V"} => console' = console]_vars

\* a profile call has just read an unreadable aoa.txt and the angle of an
\* earlier read is still cached
C5_Witness ==
    /\ last_op = "U"
    /\ ~Readable(aoa_txt)
    /\ last_good.seen
    /\ aoa_deg = -5000

\* the data rows of the ledger
Rows == SelectSeq(results_txt, IsRow)

SixDigits(x) ==
    \/ Abs(x) < Pow10(6)
    \/ Abs(x) % Pow10(Digits(Abs(x)) - 6) = 0

C8_ZeroDenominator ==
    (last_op = "append" /\ QA(cfg) = 0) =>
        LET row == results_txt[Len(results_txt)]
        IN  /\ Divisors(cfg) = <<>>
            /\ IsRow(row)
            /\ <<row.f[2], row.f[3], row.f[4]>> = flow.force
            /\ <<row.f[9], row.f[10], row.f[11]>> = flow.moment
            /\ \A i \in {7, 8, 12, 13, 14} : row.f[i] = 0

\* AREF = 0 with a non-zero force and moment
C8_Witness ==
    /\ last_op = "append"
    /\ cfg.AREF = 0 /\ cfg.RHO # 0 /\ cfg.UINF # 0 /\ cfg.LREF # 0
    /\ flow.force = <<3000, -2000, 1000>>
    /\ flow.moment = <<500, -250, 125>>
    /\ Len(results_txt) = 2

\* C9: every profile call reads aoa.txt first, so an application after the
\* file was changed to a readable value uses that value; every face gets
\* the same scalar, UINF cos(a) from inlet_U_profile and UINF sin(a) from
\* inlet_V_profile.
C9_ProfileFresh ==
    /\ last_op \in {"U", "V"} /\ Readable(aoa_txt)
          => aoa_deg = FirstNumber(aoa_txt)
    /\ last_op = "U" =>
          \A f \in Faces : F_PROFILE.x[f] = Mul(cfg.UINF, CosDeg(aoa_deg))
    /\ last_op = "V" =>
          \A f \in Faces : F_PROFILE.y[f] = Mul(cfg.UINF, SinDeg(aoa_deg))

\* the y profile was applied at 30 degrees after the x profile had been
\* applied at another angle
C9_Witness ==
    /\ last_op = "V"
    /\ aoa_txt = File(<<Num(30000)>>)
    /\ \A f \in Faces : F_PROFILE.y[f] = 8000
    /\ \A f \in Faces : F_PROFILE.x[f] = Mul(cfg.UINF, CosDeg(-5000))

\* the values the last successful invocation computed
LastCall == calls[Len(calls)]

\* C10 (as claimed): Fd and Fl are the rotation of (Fx, Fy) by the AoA:
\* AoA 0 gives Fd = Fx and Fl = Fy, AoA 90 with force (1,0,0) gives Fd = 0
\* and Fl = -1, Fd^2 + Fl^2 = Fx^2 + Fy^2, and Fz does not enter.
C10_ExactRotation ==
    last_op = "append" =>
        LET Fx == LastCall[2]
            Fy == LastCall[3]
            Fd == LastCall[5]
            Fl == LastCall[6]
        IN  /\ aoa_deg = 0 => Fd = Fx /\ Fl = Fy
            /\ aoa_deg = 90000 /\ flow.force = <<1000, 0, 0>>
                  => Fd = 0 /\ Fl = -1000
            /\ Fd * Fd + Fl * Fl = Fx * Fx + Fy * Fy
            /\ \A z \in {0, 500, 1000} :
                  LET g == [flow.force EXCEPT ![3] = z]
                  IN  /\ Drag(g, Rad(aoa_deg)) = Fd
                      /\ Lift(g, Rad(aoa_deg)) = Fl

\* C10 (amended): the same up to the rounding of the arithmetic: Fd and Fl
\* are within rounding of Fx cos(a) + Fy sin(a) and -Fx sin(a) + Fy cos(a);
\* AoA 0 gives Fd = Fx and Fl = Fy exactly; AoA 90 with force (1,0,0) gives
\* Fd and Fl within rounding of 0 and -1; Fd^2 + Fl^2 is within rounding of
\* Fx^2 + Fy^2; Fz does not enter.
C10_RotationWithinRounding ==
    last_op = "append" =>
        LET Fx == LastCall[2]
            Fy == LastCall[3]
            Fd == LastCall[5]
            Fl == LastCall[6]
            c == CosDeg(aoa_deg)
            s == SinDeg(aoa_deg)
            tol == (Abs(Fx) + Abs(Fy)) \div 100 + 2
        IN  /\ Abs(Scale * Fd - (Fx * c + Fy * s)) <= Scale * tol
            /\ Abs(Scale * Fl - (Fy * c - Fx * s)) <= Scale * tol
            /\ aoa_deg = 0 => Fd = Fx /\ Fl = Fy
            /\ aoa_deg = 90000 /\ flow.force = <<1000, 0, 0>>
                  => Abs(Fd) <= 2 /\ Abs(Fl + 1000) <= 2
            /\ 100 * Abs(Fd * Fd + Fl * Fl - (Fx * Fx + Fy * Fy))
                  <= Fx * Fx + Fy * Fy
            /\ \A z \in {0, 500, 1000} :
                  LET g == [flow.force EXCEPT ![3] = z]
                  IN  /\ Drag(g, Rad(aoa_deg)) = Fd
                      /\ Lift(g, Rad(aoa_deg)) = Fl

\* the reduction at AoA 90 of the force (1, 0, 0)
C10_Witness ==
    /\ last_op = "append"
    /\ aoa_deg = 90000
    /\ flow.force = <<1000, 0, 0>>
    /\ LastCall[6] = -1000

\* C11: the zero qinf * AREF product is the only failure mode of the
\* coefficient computation: for every setting of RHO, UINF, AREF and LREF
\* (LREF = 0 with qinf * AREF non-zero included), every division an
\* invocation performs for Cd, Cl, Cmx, Cmy and Cmz has a non-zero divisor.
C11_DivisorsNonZero ==
    last_op \in {"append", "open_failed"} =>
        \A i \in DOMAIN Divisors(cfg) : Divisors(cfg)[i] # 0

=============================================================================
